---- MODULE Spec2Model ----
(***************************************************************************)
(* Model of jsonschema_pydantic/transform.py: the recursive compiler from   *)
(* a JSON Schema document to a pydantic model type.                         *)
(*                                                                         *)
(* A schema node (a Python dict) is a function from its keys to their       *)
(* values; `k \in DOMAIN d` is Python's `k in d`.  An ordered mapping       *)
(* (`properties`) is a sequence of [name, node] pairs with distinct names,  *)
(* a list (`required`, `allOf`, `anyOf`) is a sequence.  A `$ref` string is *)
(* kept as the sequence of its "/"-separated segments, which is what        *)
(* str.split("/") returns.  A JSON value is a record [json, s].             *)
(*                                                                         *)
(* A call's outcome is a record [err, val, log]: the exception raised ("" *)
(* for a normal return), the returned type, and the events of the call in   *)
(* program order (calls entered, $ref lookups, create_model invocations,   *)
(* raises).                                                                *)
(***************************************************************************)
EXTENDS Integers, Sequences, FiniteSets, TLC

VARIABLES schema, definitions_arg, version, pc, result, instance, regenerated,
          frames, calls

vars == <<schema, definitions_arg, version, pc, result, instance, regenerated,
          frames, calls>>

(***************************************************************************)
(* Bounds of the model.                                                    *)
(***************************************************************************)
\* The interpreter's recursion limit, counted in nested calls of
\* jsonschema_to_pydantic / convert_type.
RecursionLimit == 7
\* The longest anyOf / allOf list drawn as an input.
MaxAlternatives == 2

(***************************************************************************)
(* Python values.                                                          *)
(***************************************************************************)
EmptyDict == [k \in {} |-> k]

\* The `definitions` argument: NoDefinitions is the default None, <<t>> a table.
NoDefinitions == <<>>
Given(table) == <<table>>

JsonNull == [json |-> "null", s |-> ""]
JsonString(s) == [json |-> "string", s |-> s]
JsonInteger(s) == [json |-> "integer", s |-> s]
JsonArray(s) == [json |-> "array", s |-> s]
JsonObject(s) == [json |-> "object", s |-> s]

\* dict.get(key, default)
Get(d, key, default) == IF key \in DOMAIN d THEN d[key] ELSE default

Range(seq) == {seq[i] : i \in 1..Len(seq)}

Last(seq) == seq[Len(seq)]

(***************************************************************************)
(* Types (typing / pydantic objects).                                      *)
(***************************************************************************)
NoType == [kind |-> "NoType"]
StrType == [kind |-> "str"]
FloatType == [kind |-> "float"]
IntType == [kind |-> "int"]
BoolType == [kind |-> "bool"]
NoneType == [kind |-> "NoneType"]
AnyType == [kind |-> "Any"]
DictStrAny == [kind |-> "Dict[str, Any]"]
ListOf(t) == [kind |-> "List", item |-> t]

RECURSIVE ContainsModel(_)
\* A model class is created afresh by every create_model call, so a type that
\* holds one is equal to no separately built type.
ContainsModel(t) ==
    CASE t.kind = "Model" -> TRUE
      [] t.kind = "List" -> ContainsModel(t.item)
      [] t.kind = "Union" -> \E i \in 1..Len(t.args) : ContainsModel(t.args[i])
      [] OTHER -> FALSE

RECURSIVE Flatten(_)
\* typing.Union flattens nested unions.
Flatten(args) ==
    IF args = <<>> THEN <<>>
    ELSE LET h == Head(args)
         IN (IF h.kind = "Union" THEN h.args ELSE <<h>>) \o Flatten(Tail(args))

RECURSIVE Dedup(_, _)
\* typing.Union drops a parameter equal to an earlier one, keeping the order.
Dedup(args, seen) ==
    IF args = <<>> THEN seen
    ELSE LET h == Head(args)
             dup == ~ContainsModel(h) /\ \E i \in 1..Len(seen) : seen[i] = h
         IN Dedup(Tail(args), IF dup THEN seen ELSE Append(seen, h))

\* typing.Union[params] for a non-empty tuple: one parameter left is that type.
UnionOf(params) ==
    LET args == Dedup(Flatten(params), <<>>)
    IN IF Len(args) = 1 THEN args[1] ELSE [kind |-> "Union", args |-> args]

\* typing.Optional[t] is Union[t, None].
Optional(t) == UnionOf(<<t, NoneType>>)

(***************************************************************************)
(* Outcomes and events.                                                    *)
(***************************************************************************)
Event(ev, name, table) == [ev |-> ev, name |-> name, table |-> table]

Return(val, log) == [err |-> "", val |-> val, log |-> log]

Raise(err, log, table) ==
    [err |-> err, val |-> NoType, log |-> Append(log, Event("raise", err, table))]

\* A callee's outcome handed on as the caller's own, after the caller's events.
After(log, r) == [r EXCEPT !.log = log \o r.log]

\* An exception passing through a frame: the events so far, nothing returned.
Propagate(r, log) == [err |-> r.err, val |-> NoType, log |-> log \o r.log]

(***************************************************************************)
(* The model builder as the compiler uses it: create_model, Field and the   *)
(* reflection of a built model's field map.                                *)
(***************************************************************************)
\* Field(**field_kwargs): the field's metadata is the keyword arguments given.
Field(field_kwargs) == field_kwargs

\* One entry of the `fields` dict: fields[name] = (pydantic_type, Field(...)).
FieldEntry(name, type, field) == [name |-> name, type |-> type, field |-> field]

\* create_model(title, **fields) of the selected pydantic generation.
create_model(title, fields, v) ==
    [kind |-> "Model", name |-> title, fields |-> fields, doc |-> "", version |-> v]

\* model.__annotations__: field name -> annotated type, in definition order.
annotations(model) ==
    [i \in 1..Len(model.fields) |->
        [name |-> model.fields[i].name, type |-> model.fields[i].type]]

Names(pairs) == {pairs[i].name : i \in 1..Len(pairs)}

Lookup(pairs, name) ==
    pairs[CHOOSE i \in 1..Len(pairs) : pairs[i].name = name]

(***************************************************************************)
(* jsonschema_to_pydantic and its nested convert_type.                     *)
(***************************************************************************)
\* The version switch at the top of jsonschema_to_pydantic.
SupportedVersion(v) == v = 1 \/ v = 2

\* Mutant of resolve_definitions: the table is derived from the schema at hand
\* even when the caller passed one.
resolve_definitions_rederived(sch, definitions) ==
    IF "$defs" \in DOMAIN sch THEN sch["$defs"]
    ELSE IF "definitions" \in DOMAIN sch THEN sch["definitions"]
    ELSE IF definitions = NoDefinitions THEN EmptyDict
    ELSE definitions[1]

\* "top level schema provides definitions"
resolve_definitions(sch, definitions) ==
    IF definitions = NoDefinitions
    THEN IF "$defs" \in DOMAIN sch THEN sch["$defs"]
         ELSE IF "definitions" \in DOMAIN sch THEN sch["definitions"]
         ELSE EmptyDict
    ELSE definitions[1]

\* Mutant of inherited_definitions: nested calls are given no table.
inherited_definitions_dropped(definitions) == NoDefinitions

\* The definitions argument a nested call of jsonschema_to_pydantic is given.
inherited_definitions(definitions) == Given(definitions)

\* ref_path = prop["$ref"].split("/"); the name looked up is ref_path[-1].
ref_name(prop) == Last(prop["$ref"])

\* Mutant of dispatch: allOf is tested before type.
dispatch_allOf_before_type(prop) ==
    IF "$ref" \in DOMAIN prop THEN "$ref"
    ELSE IF "allOf" \in DOMAIN prop THEN "allOf"
    ELSE IF "type" \in DOMAIN prop THEN "type"
    ELSE IF "anyOf" \in DOMAIN prop THEN "anyOf"
    ELSE IF prop = EmptyDict \/ "type" \notin DOMAIN prop THEN "Any"
    ELSE "ValueError"

\* The if / elif chain of convert_type: which branch a node takes.
dispatch(prop) ==
    IF "$ref" \in DOMAIN prop THEN "$ref"
    ELSE IF "type" \in DOMAIN prop THEN "type"
    ELSE IF "allOf" \in DOMAIN prop THEN "allOf"
    ELSE IF "anyOf" \in DOMAIN prop THEN "anyOf"
    ELSE IF prop = EmptyDict \/ "type" \notin DOMAIN prop THEN "Any"
    ELSE "ValueError"

\* type_mapping.get(type_, Any) for a type that is neither array nor object.
type_mapping(type_) ==
    CASE type_ = "string" -> StrType
      [] type_ = "number" -> FloatType
      [] type_ = "integer" -> IntType
      [] type_ = "boolean" -> BoolType
      [] type_ = "null" -> NoneType
      [] OTHER -> AnyType

\* Mutant of update: a known name keeps the type it has (setdefault).
RECURSIVE update_keeping_first(_, _)
update_keeping_first(combined_fields, new) ==
    IF new = <<>> THEN combined_fields
    ELSE update_keeping_first(
             IF Head(new).name \in Names(combined_fields) THEN combined_fields
             ELSE Append(combined_fields, Head(new)),
             Tail(new))

\* combined_fields.update(annotations): a known name keeps its place and takes
\* the new type, a new name is appended.
RECURSIVE update(_, _)
update(combined_fields, new) ==
    IF new = <<>> THEN combined_fields
    ELSE LET h == Head(new)
             merged ==
                 IF h.name \in Names(combined_fields)
                 THEN [i \in 1..Len(combined_fields) |->
                          IF combined_fields[i].name = h.name THEN h
                          ELSE combined_fields[i]]
                 ELSE Append(combined_fields, h)
         IN update(merged, Tail(new))

\* create_model("CombinedModel", **combined_fields): every field is given as
\* its bare type, with no Field.
combined_model(combined_fields, v) ==
    create_model("CombinedModel",
                 [i \in 1..Len(combined_fields) |->
                     FieldEntry(combined_fields[i].name, combined_fields[i].type,
                                EmptyDict)],
                 v)

\* Mutant of union_type: the last alternative is left out of the union.
union_type_without_last(unioned_types, log, table) ==
    IF unioned_types = <<>> THEN Raise("TypeError", log, table)
    ELSE IF Len(unioned_types) = 1 THEN Return(unioned_types[1], log)
    ELSE Return(UnionOf(SubSeq(unioned_types, 1, Len(unioned_types) - 1)), log)

\* Union[unioned_types]; typing refuses an empty tuple.
union_type(unioned_types, log, table) ==
    IF unioned_types = <<>> THEN Raise("TypeError", log, table)
    ELSE Return(UnionOf(unioned_types), log)

\* Mutant of field_entry: an optional field's default is always None.
field_entry_default_none(name, prop, pydantic_type, required_fields) ==
    LET optional == name \notin Range(required_fields)
        kw1 == IF optional THEN ("default" :> JsonNull)
               ELSE IF "default" \in DOMAIN prop THEN ("default" :> prop["default"])
               ELSE EmptyDict
        kw2 == IF "description" \in DOMAIN prop
               THEN kw1 @@ ("description" :> prop["description"]) ELSE kw1
    IN FieldEntry(name, IF optional THEN Optional(pydantic_type) ELSE pydantic_type,
                  Field(kw2))

\* Mutant of field_entry: every field is wrapped as Optional.
field_entry_always_optional(name, prop, pydantic_type, required_fields) ==
    LET kw1 == IF "default" \in DOMAIN prop
               THEN ("default" :> prop["default"]) ELSE EmptyDict
        optional == name \notin Range(required_fields)
        kw2 == IF optional /\ "default" \notin DOMAIN kw1
               THEN kw1 @@ ("default" :> JsonNull) ELSE kw1
        kw3 == IF "description" \in DOMAIN prop
               THEN kw2 @@ ("description" :> prop["description"]) ELSE kw2
    IN FieldEntry(name, Optional(pydantic_type), Field(kw3))

\* The body of the properties loop after convert_type returned pydantic_type.
field_entry(name, prop, pydantic_type, required_fields) ==
    LET kw1 == IF "default" \in DOMAIN prop
               THEN ("default" :> prop["default"]) ELSE EmptyDict
        optional == name \notin Range(required_fields)
        type == IF optional THEN Optional(pydantic_type) ELSE pydantic_type
        kw2 == IF optional /\ "default" \notin DOMAIN kw1
               THEN kw1 @@ ("default" :> JsonNull) ELSE kw1
        kw3 == IF "description" \in DOMAIN prop
               THEN kw2 @@ ("description" :> prop["description"]) ELSE kw2
    IN FieldEntry(name, type, Field(kw3))

\* Mutant of build_model: the schema's title is not used.
build_model_untitled(sch, fields, v) ==
    LET model == create_model("DynamicModel", fields, v)
        description == Get(sch, "description", "")
    IN IF description # "" THEN [model EXCEPT !.doc = description] ELSE model

\* model = create_model(title, **fields); model.__doc__ = description if truthy.
build_model(sch, fields, v) ==
    LET model == create_model(Get(sch, "title", "DynamicModel"), fields, v)
        description == Get(sch, "description", "")
    IN IF description # "" THEN [model EXCEPT !.doc = description] ELSE model

\* Mutant of property_failed: the exception is swallowed and the model is built
\* from the fields converted so far.
property_failed_partial(r, log, fields) == Return(fields, log \o r.log)

\* What the properties loop does when convert_type raised for a property.
property_failed(r, log, fields) == Propagate(r, log)

RECURSIVE jsonschema_to_pydantic(_, _, _, _)
RECURSIVE convert_type(_, _, _, _)
RECURSIVE properties_loop(_, _, _, _, _, _, _)
RECURSIVE allOf_loop(_, _, _, _, _, _)
RECURSIVE anyOf_loop(_, _, _, _, _, _)

\* for name, prop in schema.get("properties", {}).items(): ...
properties_loop(props, required_fields, definitions, v, depth, fields, log) ==
    IF props = <<>> THEN Return(fields, log)
    ELSE LET name == Head(props).name
             prop == Head(props).node
             r == convert_type(prop, definitions, v, depth + 1)
         IN IF r.err # "" THEN property_failed(r, log, fields)
            ELSE properties_loop(
                     Tail(props), required_fields, definitions, v, depth,
                     Append(fields, field_entry(name, prop, r.val, required_fields)),
                     log \o r.log)

\* for sub_schema in prop["allOf"]: model = jsonschema_to_pydantic(...); update
allOf_loop(subs, definitions, v, depth, combined_fields, log) ==
    IF subs = <<>> THEN Return(combined_fields, log)
    ELSE LET r == jsonschema_to_pydantic(
                      Head(subs), inherited_definitions(definitions), v, depth + 1)
         IN IF r.err # "" THEN Propagate(r, log)
            ELSE allOf_loop(Tail(subs), definitions, v, depth,
                            update(combined_fields, annotations(r.val)),
                            log \o r.log)

\* tuple(convert_type(sub_schema) for sub_schema in prop["anyOf"])
anyOf_loop(subs, definitions, v, depth, unioned_types, log) ==
    IF subs = <<>> THEN Return(unioned_types, log)
    ELSE LET r == convert_type(Head(subs), definitions, v, depth + 1)
         IN IF r.err # "" THEN Propagate(r, log)
            ELSE anyOf_loop(Tail(subs), definitions, v, depth,
                            Append(unioned_types, r.val), log \o r.log)

convert_type(prop, definitions, v, depth) ==
    IF depth > RecursionLimit THEN Raise("RecursionError", <<>>, definitions)
    ELSE LET branch == dispatch(prop) IN
    CASE branch = "$ref" ->
           LET name == ref_name(prop)
               log == <<Event("lookup", name, definitions)>>
           IN IF name \notin DOMAIN definitions
              THEN Raise("KeyError", log, definitions)
              ELSE After(log,
                         jsonschema_to_pydantic(
                             definitions[name], inherited_definitions(definitions),
                             v, depth + 1))
      [] branch = "type" ->
           LET type_ == prop["type"]
           IN IF type_ = "array"
              THEN LET r == convert_type(Get(prop, "items", EmptyDict),
                                         definitions, v, depth + 1)
                   IN IF r.err # "" THEN r ELSE Return(ListOf(r.val), r.log)
              ELSE IF type_ = "object"
              THEN IF "properties" \in DOMAIN prop
                   THEN jsonschema_to_pydantic(
                            prop, inherited_definitions(definitions), v, depth + 1)
                   ELSE Return(DictStrAny, <<>>)
              ELSE Return(type_mapping(type_), <<>>)
      [] branch = "allOf" ->
           LET r == allOf_loop(prop["allOf"], definitions, v, depth, <<>>, <<>>)
           IN IF r.err # "" THEN r
              ELSE Return(combined_model(r.val, v),
                          Append(r.log,
                                 Event("create_model", "CombinedModel", definitions)))
      [] branch = "anyOf" ->
           LET r == anyOf_loop(prop["anyOf"], definitions, v, depth, <<>>, <<>>)
           IN IF r.err # "" THEN r ELSE union_type(r.val, r.log, definitions)
      [] branch = "Any" -> Return(AnyType, <<>>)
      [] OTHER -> Raise("ValueError", <<>>, definitions)

jsonschema_to_pydantic(sch, definitions, v, depth) ==
    IF depth > RecursionLimit THEN Raise("RecursionError", <<>>, EmptyDict)
    ELSE IF ~SupportedVersion(v) THEN Raise("ValueError", <<>>, EmptyDict)
    ELSE LET table == resolve_definitions(sch, definitions)
             entered == <<Event("call", Get(sch, "title", "DynamicModel"), table)>>
             r == properties_loop(Get(sch, "properties", <<>>),
                                  Get(sch, "required", <<>>),
                                  table, v, depth, <<>>, entered)
         IN IF r.err # "" THEN r
            ELSE LET model == build_model(sch, r.val, v)
                 IN Return(model,
                           Append(r.log, Event("create_model", model.name, table)))

(***************************************************************************)
(* The model builder's side of the contract: building an instance of a     *)
(* generated model from keyword arguments.                                 *)
(***************************************************************************)
\* The element of a JSON array value (arrays here are homogeneous).
Element(value) == [json |-> value.s, s |-> "item"]

RECURSIVE Accepts(_, _)
\* Whether validation of `value` against `type` succeeds.
Accepts(type, value) ==
    CASE type.kind = "Any" -> TRUE
      [] type.kind = "str" -> value.json = "string"
      [] type.kind = "int" -> value.json = "integer"
      [] type.kind = "float" -> value.json \in {"integer", "number"}
      [] type.kind = "bool" -> value.json = "boolean"
      [] type.kind = "NoneType" -> value.json = "null"
      [] type.kind = "Dict[str, Any]" -> value.json = "object"
      [] type.kind = "List" ->
           value.json = "array" /\ Accepts(type.item, Element(value))
      [] type.kind = "Union" ->
           \E i \in 1..Len(type.args) : Accepts(type.args[i], value)
      [] type.kind = "Model" ->
           \* the object values drawn here are empty mappings
           /\ value.json = "object"
           /\ \A i \in 1..Len(type.fields) : "default" \in DOMAIN type.fields[i].field
      [] OTHER -> FALSE

\* Whether model(**kwargs) can fill field f: a given argument is validated
\* against the field's type, an omitted field needs a declared default.
field_ok(f, kwargs) ==
    IF f.name \in DOMAIN kwargs THEN Accepts(f.type, kwargs[f.name])
    ELSE "default" \in DOMAIN f.field

\* The value model(**kwargs) stores for field f.
field_value(f, kwargs) ==
    IF f.name \in DOMAIN kwargs THEN kwargs[f.name] ELSE f.field["default"]

\* instance = model(**kwargs)
construct(model, kwargs) ==
    IF \A i \in 1..Len(model.fields) : field_ok(model.fields[i], kwargs)
    THEN [err |-> "", kwargs |-> kwargs,
          values |-> [i \in 1..Len(model.fields) |->
                         [name |-> model.fields[i].name,
                          value |-> field_value(model.fields[i], kwargs)]]]
    ELSE [err |-> "ValidationError", kwargs |-> kwargs, values |-> <<>>]

(***************************************************************************)
(* The model builder's reflection: model.schema(), the JSON Schema of a    *)
(* built model in the dialect of its pydantic generation, for models made   *)
(* of primitives, arrays and nested models.                                *)
(***************************************************************************)
\* The title pydantic derives from a field name (name.title()).
Titles ==
    ("a" :> "A") @@ ("b" :> "B") @@ ("x" :> "X") @@ ("y" :> "Y") @@ ("z" :> "Z")
    @@ ("age" :> "Age") @@ ("name" :> "Name") @@ ("bar" :> "Bar") @@ ("next" :> "Next")
title_of(name) == Titles[name]

\* Where a generation keeps nested models: `definitions` (1) or `$defs` (2).
DefsKey(v) == IF v = 1 THEN "definitions" ELSE "$defs"

\* A type without its None member, if it is Optional[t].
NonNull(type) ==
    IF type.kind = "Union" /\ Len(type.args) = 2 /\ type.args[2] = NoneType
    THEN type.args[1] ELSE type

RECURSIVE ModelsIn(_)
RECURSIVE ModelsInFields(_)
\* The model classes a type holds, one entry per class, outermost first.
ModelsIn(type) ==
    CASE type.kind = "Model" -> <<type>> \o ModelsInFields(type.fields)
      [] type.kind = "List" -> ModelsIn(type.item)
      [] type.kind = "Union" -> ModelsInFields([i \in 1..Len(type.args) |-> [type |-> type.args[i]]])
      [] OTHER -> <<>>
ModelsInFields(fields) ==
    IF fields = <<>> THEN <<>>
    ELSE ModelsIn(Head(fields).type) \o ModelsInFields(Tail(fields))

RECURSIVE PlainType(_)
\* A primitive, an array of plain types, or a nested model of plain fields.
PlainType(type) ==
    CASE type.kind \in {"str", "int", "float", "bool"} -> TRUE
      [] type.kind = "List" -> PlainType(type.item)
      [] type.kind = "Model" ->
           \A i \in 1..Len(type.fields) :
             LET f == type.fields[i]
             IN /\ PlainType(NonNull(f.type))
                /\ f.name \in DOMAIN Titles
                \* a nested-model field carries no metadata of its own
                /\ NonNull(f.type).kind = "Model" =>
                     /\ "description" \notin DOMAIN f.field
                     /\ "default" \in DOMAIN f.field => f.field["default"] = JsonNull
      [] OTHER -> FALSE

\* The models whose schema is modelled: plain, the nested classes named apart.
Regenerable(model) ==
    /\ PlainType(model)
    /\ LET nested == ModelsInFields(model.fields)
       IN \A i, j \in 1..Len(nested) : i # j => nested[i].name # nested[j].name

RECURSIVE type_schema(_, _)
\* The schema of a field's type.
type_schema(type, v) ==
    CASE type.kind = "str" -> ("type" :> "string")
      [] type.kind = "int" -> ("type" :> "integer")
      [] type.kind = "float" -> ("type" :> "number")
      [] type.kind = "bool" -> ("type" :> "boolean")
      [] type.kind = "List" ->
           ("type" :> "array") @@ ("items" :> type_schema(type.item, v))
      [] type.kind = "Model" -> ("$ref" :> <<"#", DefsKey(v), type.name>>)
      [] type.kind = "Union" ->
           \* Optional[t]: generation 1 writes t's schema, generation 2 an anyOf
           \* of t and null
           IF v = 1 THEN type_schema(NonNull(type), v)
           ELSE ("anyOf" :> <<type_schema(NonNull(type), v), ("type" :> "null")>>)
      [] OTHER -> EmptyDict

\* The schema of one field: its type's schema, the derived title unless the
\* field is a nested model, the default (generation 1 leaves out a None
\* default) and the description.
field_schema(f, v) ==
    LET base == type_schema(f.type, v)
        title == IF NonNull(f.type).kind = "Model" THEN EmptyDict
                 ELSE ("title" :> title_of(f.name))
        default == IF "default" \in DOMAIN f.field
                      /\ (v = 2 \/ f.field["default"] # JsonNull)
                   THEN ("default" :> f.field["default"]) ELSE EmptyDict
        description == IF "description" \in DOMAIN f.field
                       THEN ("description" :> f.field["description"]) ELSE EmptyDict
    IN base @@ title @@ default @@ description

RECURSIVE required_names(_)
\* The fields without a default, in field order.
required_names(fields) ==
    IF fields = <<>> THEN <<>>
    ELSE (IF "default" \in DOMAIN Head(fields).field THEN <<>> ELSE <<Head(fields).name>>)
         \o required_names(Tail(fields))

\* The schema of one model class, without the definitions block.
model_body(model, v) ==
    ("title" :> model.name) @@ ("type" :> "object")
    @@ ("properties" :> [i \in 1..Len(model.fields) |->
                           [name |-> model.fields[i].name,
                            node |-> field_schema(model.fields[i], v)]])
    @@ (IF required_names(model.fields) = <<>> THEN EmptyDict
        ELSE ("required" :> required_names(model.fields)))
    @@ (IF model.doc = "" THEN EmptyDict ELSE ("description" :> model.doc))

\* model.schema(): the model's own schema and, under the generation's key,
\* the schemas of the nested model classes by name.
model_schema(model) ==
    LET v == model.version
        nested == ModelsInFields(model.fields)
    IN model_body(model, v)
       @@ (IF nested = <<>> THEN EmptyDict
           ELSE (DefsKey(v) :> [n \in {nested[i].name : i \in 1..Len(nested)} |->
                                  model_body(nested[CHOOSE i \in 1..Len(nested) :
                                                       nested[i].name = n], v)]))

RECURSIVE NodeReachesRef(_)
RECURSIVE SchemaReachesRef(_)
\* Whether converting a property node can come to a `$ref`.
NodeReachesRef(node) ==
    CASE dispatch(node) = "$ref" -> TRUE
      [] dispatch(node) = "type" ->
           IF node["type"] = "array" THEN NodeReachesRef(Get(node, "items", EmptyDict))
           ELSE node["type"] = "object" /\ "properties" \in DOMAIN node
                /\ SchemaReachesRef(node)
      [] dispatch(node) = "allOf" ->
           \E k \in 1..Len(node["allOf"]) : SchemaReachesRef(node["allOf"][k])
      [] dispatch(node) = "anyOf" ->
           \E k \in 1..Len(node["anyOf"]) : NodeReachesRef(node["anyOf"][k])
      [] OTHER -> FALSE

\* Whether converting a schema's properties can come to a `$ref`.
SchemaReachesRef(sch) ==
    LET props == Get(sch, "properties", <<>>)
    IN \E k \in 1..Len(props) : NodeReachesRef(props[k].node)

(***************************************************************************)
(* Input schemas.                                                          *)
(***************************************************************************)
TypeNode(t) == ("type" :> t)
RefNode(name) == ("$ref" :> <<"#", "$defs", name>>)
ArrayNode(items) == ("type" :> "array") @@ ("items" :> items)
Prop(name, node) == [name |-> name, node |-> node]
ObjectNode(props, required) ==
    ("type" :> "object") @@ ("properties" :> props) @@ ("required" :> required)
WithDefault(node, value) == node @@ ("default" :> value)

\* All sequences over S of length lo..hi.
SeqsOf(S, lo, hi) == UNION {[1..n -> S] : n \in lo..hi}

Values ==
    {JsonString("x"), JsonInteger("7"), JsonNull, JsonArray("integer"),
     JsonObject("empty")}

\* Definitions.
BarDef == ("title" :> "Bar") @@ ObjectNode(<<Prop("age", TypeNode("integer"))>>, <<"age">>)
OtherBarDef == ("title" :> "Bar") @@ ObjectNode(<<Prop("age", TypeNode("string"))>>, <<>>)
FooPlain ==
    ("title" :> "Foo") @@ ("description" :> "a foo")
    @@ ObjectNode(<<Prop("name", TypeNode("string") @@ ("description" :> "its name"))>>,
                  <<"name">>)
FooUsesBar == ("title" :> "Foo") @@ ObjectNode(<<Prop("bar", RefNode("Bar"))>>, <<"bar">>)
FooOwnDefs == ("$defs" :> ("Bar" :> OtherBarDef)) @@ FooUsesBar
FooCyclic == ("title" :> "Foo") @@ ObjectNode(<<Prop("next", RefNode("Foo"))>>, <<>>)
FooString == TypeNode("string")

PlainTable == ("Foo" :> FooPlain) @@ ("Bar" :> BarDef)
LegacyTable == ("Foo" :> FooString) @@ ("Bar" :> OtherBarDef)

Tables ==
    {EmptyDict,
     PlainTable,
     ("Foo" :> FooUsesBar) @@ ("Bar" :> BarDef),
     ("Foo" :> FooOwnDefs) @@ ("Bar" :> BarDef),
     ("Foo" :> FooUsesBar),
     ("Foo" :> FooCyclic),
     LegacyTable}

\* The definitions block of a root: none, `$defs`, `definitions`, or both.
TableKeys ==
    {EmptyDict}
    \cup {("$defs" :> t) : t \in Tables}
    \cup {("definitions" :> t) : t \in Tables \ {EmptyDict}}
    \cup {("$defs" :> PlainTable) @@ ("definitions" :> LegacyTable)}

Leaves ==
    {TypeNode(t) : t \in {"string", "integer", "null", "object", "array", "date"}}
    \cup {EmptyDict, ("label" :> "Value")}
    \cup {RefNode(n) : n \in {"Foo", "Bar", "Nope"}}

Decorated ==
    {WithDefault(n, JsonString("output")) : n \in {TypeNode("string"), ("label" :> "Value")}}
    \cup {WithDefault(TypeNode("integer"), JsonNull),
          TypeNode("string") @@ ("description" :> "text") @@ ("title" :> "A")}

Arrays == {ArrayNode(n) : n \in Leaves \cup {ArrayNode(TypeNode("integer"))}}

InnerProps ==
    {<<Prop("x", n)>> : n \in {TypeNode("string"), RefNode("Bar"), RefNode("Nope")}}
    \cup {<<Prop("x", TypeNode("integer")), Prop("y", WithDefault(TypeNode("string"), JsonString("output")))>>}

Objects ==
    {ObjectNode(ps, req) : ps \in InnerProps, req \in {<<>>, <<"x">>}}
    \cup {("$defs" :> ("Bar" :> OtherBarDef)) @@ ObjectNode(<<Prop("x", RefNode("Bar"))>>, <<"x">>),
          ("title" :> "Inner") @@ ("description" :> "nested")
          @@ ObjectNode(<<Prop("x", TypeNode("string"))>>, <<"x">>)}

Alternatives ==
    {TypeNode("string"), TypeNode("integer"), TypeNode("null"), RefNode("Foo"),
     ("anyOf" :> <<TypeNode("integer"), TypeNode("object")>>)}

AnyOfs == {("anyOf" :> alts) : alts \in SeqsOf(Alternatives, 0, MaxAlternatives)}

SubSchemas ==
    {ObjectNode(<<Prop("x", TypeNode("string"))>>, <<"x">>),
     ObjectNode(<<Prop("x", TypeNode("integer")), Prop("y", TypeNode("string"))>>, <<"y">>),
     ObjectNode(<<Prop("z", RefNode("Foo"))>>, <<>>),
     RefNode("Bar")}

AllOfs == {("allOf" :> subs) : subs \in SeqsOf(SubSchemas, 0, MaxAlternatives)}

\* Nodes carrying several of the keys convert_type dispatches on.
Part(S) == S \cup {EmptyDict}
SeveralKeys ==
    {n \in {r @@ t @@ al @@ an :
               r \in Part({RefNode("Foo"), RefNode("Nope")}),
               t \in Part({TypeNode("string"), ArrayNode(TypeNode("integer")),
                           ObjectNode(<<Prop("x", TypeNode("string"))>>, <<"x">>)}),
               al \in Part({("allOf" :> <<ObjectNode(<<Prop("y", TypeNode("integer"))>>, <<>>)>>)}),
               an \in Part({("anyOf" :> <<TypeNode("null"), TypeNode("integer")>>)})} :
        Cardinality(DOMAIN n \cap {"$ref", "type", "allOf", "anyOf"}) >= 2}

PropertyNodes ==
    Leaves \cup Decorated \cup Arrays \cup Objects \cup AnyOfs \cup AllOfs \cup SeveralKeys

\* Roots with one property.
OneProperty ==
    {tk @@ ("title" :> "T") @@ ObjectNode(<<Prop("a", n)>>, req) :
        tk \in TableKeys, n \in PropertyNodes, req \in {<<>>, <<"a">>}}

PairNodes ==
    {TypeNode("string"), WithDefault(TypeNode("integer"), JsonInteger("7")),
     RefNode("Foo"), RefNode("Nope"), ArrayNode(RefNode("Bar")),
     ("anyOf" :> <<TypeNode("string"), TypeNode("null")>>)}

\* Roots with two properties, untitled, with every shape of `required`.
TwoProperties ==
    {tk @@ ("properties" :> <<Prop(na, n1), Prop(nb, n2)>>) @@ rq :
        tk \in {EmptyDict, ("$defs" :> PlainTable)},
        na \in {"a"}, nb \in {"b"}, n1 \in PairNodes, n2 \in PairNodes,
        rq \in {EmptyDict} \cup {("required" :> r) :
                                    r \in {<<>>, <<"a">>, <<"b", "a">>, <<"b", "missing">>}}}

\* Schemas of primitives, arrays and nested objects, some in the form the
\* model builder writes (titles, references into the definitions block).
RefTo(key, name) == ("$ref" :> <<"#", key, name>>)
Titled(name, node) == node @@ ("title" :> title_of(name))
ItemDef ==
    ("title" :> "Item") @@ ("description" :> "an item")
    @@ ObjectNode(<<Prop("age", Titled("age", TypeNode("integer"))),
                    Prop("name", Titled("name", TypeNode("string")
                                                @@ ("description" :> "its name")))>>,
                  <<"age", "name">>)

FirstNodes ==
    {Titled("a", TypeNode("string")),
     Titled("a", TypeNode("number") @@ ("description" :> "text")),
     TypeNode("string"),
     Titled("a", WithDefault(TypeNode("integer"), JsonInteger("7")))}

SecondNodes(key) ==
    {RefTo(key, "Item"),
     Titled("b", ArrayNode(RefTo(key, "Item"))),
     Titled("b", ArrayNode(TypeNode("boolean"))),
     ("title" :> "Item") @@ ObjectNode(<<Prop("age", Titled("age", TypeNode("integer")))>>,
                                       <<"age">>)}

WithItem(key) ==
    {(IF NodeReachesRef(n2) THEN (key :> ("Item" :> ItemDef)) ELSE EmptyDict)
     @@ ("title" :> "T") @@ ("type" :> "object")
     @@ ("properties" :> <<Prop("a", n1), Prop("b", n2)>>) @@ rq :
        n1 \in FirstNodes, n2 \in SecondNodes(key),
        rq \in {EmptyDict, ("required" :> <<"a">>), ("required" :> <<"b", "a">>)}}

RoundTripSchemas ==
    WithItem("$defs") \cup WithItem("definitions")
    \cup {("title" :> "T") @@ ("type" :> "object")
          @@ ("properties" :> <<Prop("a", n1)>>) @@ rq :
             n1 \in FirstNodes, rq \in {EmptyDict, ("required" :> <<"a">>)}}

\* Schemas that are not objects with properties.
Bare == {EmptyDict, TypeNode("string"), RefNode("Foo"), ("title" :> "Empty") @@ TypeNode("object")}

Schemas == OneProperty \cup TwoProperties \cup Bare \cup RoundTripSchemas

(***************************************************************************)
(* The state machine: one top-level call, then uses of the built model.    *)
(***************************************************************************)
NoResult == [err |-> "", val |-> NoType, log |-> <<>>]
NoInstance == [err |-> "", kwargs |-> EmptyDict, values |-> <<>>]

\* Every schema is converted by pydantic 2 without a `definitions` argument;
\* the two-property, bare and round-trip ones also by pydantic 1 and by an
\* unsupported version, the first two also with a table passed by the caller.
Init ==
    /\ schema \in Schemas
    /\ version \in {1, 2, 3}
    /\ definitions_arg \in {NoDefinitions, Given(LegacyTable)}
    /\ version # 2 => schema \in TwoProperties \cup Bare \cup RoundTripSchemas
    /\ definitions_arg # NoDefinitions => schema \in TwoProperties \cup Bare
    /\ pc = "start"
    /\ result = NoResult
    /\ instance = NoInstance
    /\ regenerated = EmptyDict
    /\ frames = <<>>
    /\ calls = 0

\* model = jsonschema_to_pydantic(schema, definitions, version=version)
Convert ==
    /\ pc = "start"
    /\ result' = jsonschema_to_pydantic(schema, definitions_arg, version, 0)
    /\ pc' = "converted"
    /\ UNCHANGED <<schema, definitions_arg, version, instance, regenerated, frames, calls>>

\* instance = model(**kwargs)
Construct ==
    /\ pc = "converted"
    /\ result.err = ""
    /\ \E given \in SUBSET Names(result.val.fields), v \in Values :
          instance' = construct(result.val, [n \in given |-> v])
    /\ pc' = "constructed"
    /\ UNCHANGED <<schema, definitions_arg, version, result, regenerated, frames, calls>>

\* regenerated = model.schema()
Regenerate ==
    /\ pc = "converted"
    /\ result.err = ""
    /\ Regenerable(result.val)
    /\ regenerated' = model_schema(result.val)
    /\ pc' = "regenerated"
    /\ UNCHANGED <<schema, definitions_arg, version, result, instance, frames, calls>>

Next == Convert \/ Construct \/ Regenerate

Spec == Init /\ [][Next]_vars

(***************************************************************************)
(* The same call, one function call at a time.  `frames` holds the calls   *)
(* of jsonschema_to_pydantic and convert_type still to be made, the next   *)
(* one first; a call is taken off when it is entered and the calls its     *)
(* body makes are put in its place, in program order.  Values are left     *)
(* out: only which calls are made, how deep, and what they raise.          *)
(***************************************************************************)
\* A pending call.  `definitions` is the argument of a jsonschema_to_pydantic
\* call (NoDefinitions for None) and, as Given(table), the table convert_type
\* finds in its enclosing call.
Frame(fn, arg, definitions, depth) ==
    [fn |-> fn, arg |-> arg, definitions |-> definitions, depth |-> depth]

\* Mutant of items_of: the array node itself is converted again.
items_of_same_node(prop) == prop

\* prop.get("items", {})
items_of(prop) == Get(prop, "items", EmptyDict)

\* What entering a call raises before it returns or calls on: "" if nothing.
raises(frame) ==
    IF frame.depth > RecursionLimit THEN "RecursionError"
    ELSE IF frame.fn = "jsonschema_to_pydantic"
    THEN IF SupportedVersion(version) THEN "" ELSE "ValueError"
    ELSE LET prop == frame.arg
             branch == dispatch(prop)
         IN CASE branch = "$ref" ->
                   IF ref_name(prop) \in DOMAIN frame.definitions[1] THEN ""
                   ELSE "KeyError"
              [] branch = "anyOf" -> IF prop["anyOf"] = <<>> THEN "TypeError" ELSE ""
              [] branch = "ValueError" -> "ValueError"
              [] OTHER -> ""

\* The calls the body of a call makes, in program order.
callees(frame) ==
    LET depth == frame.depth + 1 IN
    IF frame.fn = "jsonschema_to_pydantic"
    THEN LET table == resolve_definitions(frame.arg, frame.definitions)
             props == Get(frame.arg, "properties", <<>>)
         IN [i \in 1..Len(props) |->
               Frame("convert_type", props[i].node, Given(table), depth)]
    ELSE LET prop == frame.arg
             definitions == frame.definitions[1]
             branch == dispatch(prop)
         IN CASE branch = "$ref" ->
                   <<Frame("jsonschema_to_pydantic", definitions[ref_name(prop)],
                           inherited_definitions(definitions), depth)>>
              [] branch = "type" ->
                   IF prop["type"] = "array"
                   THEN <<Frame("convert_type", items_of(prop), Given(definitions), depth)>>
                   ELSE IF prop["type"] = "object" /\ "properties" \in DOMAIN prop
                   THEN <<Frame("jsonschema_to_pydantic", prop,
                                inherited_definitions(definitions), depth)>>
                   ELSE <<>>
              [] branch = "allOf" ->
                   [i \in 1..Len(prop["allOf"]) |->
                      Frame("jsonschema_to_pydantic", prop["allOf"][i],
                            inherited_definitions(definitions), depth)]
              [] branch = "anyOf" ->
                   [i \in 1..Len(prop["anyOf"]) |->
                      Frame("convert_type", prop["anyOf"][i], Given(definitions), depth)]
              [] OTHER -> <<>>

\* jsonschema_to_pydantic(schema, definitions, version=version) is called.
Call ==
    /\ pc = "start"
    /\ frames' = <<Frame("jsonschema_to_pydantic", schema, definitions_arg, 0)>>
    /\ calls' = 0
    /\ pc' = "running"
    /\ UNCHANGED <<schema, definitions_arg, version, result, instance, regenerated>>

\* The next call is entered and calls on.
Descend ==
    /\ pc = "running"
    /\ frames # <<>>
    /\ raises(Head(frames)) = ""
    /\ callees(Head(frames)) # <<>>
    /\ frames' = callees(Head(frames)) \o Tail(frames)
    /\ calls' = calls + 1
    /\ UNCHANGED <<schema, definitions_arg, version, pc, result, instance, regenerated>>

\* The next call is entered and returns without calling on.
ReturnLeaf ==
    /\ pc = "running"
    /\ frames # <<>>
    /\ raises(Head(frames)) = ""
    /\ callees(Head(frames)) = <<>>
    /\ frames' = Tail(frames)
    /\ calls' = calls + 1
    /\ UNCHANGED <<schema, definitions_arg, version, pc, result, instance, regenerated>>

\* The next call raises; nothing catches it, so the top-level call raises.
RaiseOut ==
    /\ pc = "running"
    /\ frames # <<>>
    /\ raises(Head(frames)) # ""
    /\ result' = [NoResult EXCEPT !.err = raises(Head(frames))]
    /\ frames' = <<>>
    /\ calls' = calls + 1
    /\ pc' = "raised"
    /\ UNCHANGED <<schema, definitions_arg, version, instance, regenerated>>

\* No call is left: the top-level call returns its model.
ReturnModel ==
    /\ pc = "running"
    /\ frames = <<>>
    /\ pc' = "returned"
    /\ UNCHANGED <<schema, definitions_arg, version, result, instance, regenerated,
                   frames, calls>>

CallNext == Call \/ Descend \/ ReturnLeaf \/ RaiseOut \/ ReturnModel

\* The interpreter runs the call on as long as there is a step to take.
CallSpec == Init /\ [][CallNext]_vars /\ WF_vars(CallNext)

(***************************************************************************)
(* Vocabulary of the properties.                                           *)
(***************************************************************************)
RootProps == Get(schema, "properties", <<>>)
RootRequired == Range(Get(schema, "required", <<>>))

\* The Definitions Table of the root schema, as the specification words it.
RootTable ==
    IF "$defs" \in DOMAIN schema THEN schema["$defs"]
    ELSE IF "definitions" \in DOMAIN schema THEN schema["definitions"]
    ELSE EmptyDict

\* The table of the call: the caller's if one was passed, else the root's.
TableInForce ==
    IF definitions_arg = NoDefinitions THEN RootTable ELSE definitions_arg[1]

Converted == pc # "start"
Built == pc # "start" /\ result.err = ""
FieldOf(name) == Lookup(result.val.fields, name)
InstanceValue(name) == Lookup(instance.values, name).value
Nullable(type) == Accepts(type, JsonNull)

\* The type the Type Converter returns for a property node of the root.
TypeConverter(prop) == convert_type(prop, TableInForce, version, 1)

\* The members of a type read as a union.
Members(type) == IF type.kind = "Union" THEN type.args ELSE <<type>>

\* C1: a property that is not in `required` gets a nullable field, and an
\* instance built with that field omitted holds the property's declared
\* `default` if it has one, else null.
C1_OptionalFieldNullableWithDefault ==
    Built =>
      \A i \in 1..Len(RootProps) :
        LET name == RootProps[i].name
            prop == RootProps[i].node
        IN name \notin RootRequired =>
             /\ name \in Names(result.val.fields)
             /\ Nullable(FieldOf(name).type)
             /\ field_ok(FieldOf(name), EmptyDict)
             /\ (pc = "constructed" /\ instance.err = ""
                   /\ name \notin DOMAIN instance.kwargs)
                  => InstanceValue(name) =
                       IF "default" \in DOMAIN prop THEN prop["default"] ELSE JsonNull

\* C1 witness: an instance built without an optional field that declares the
\* default "output" holds "output" there.
C1_Witness ==
    /\ pc = "constructed" /\ instance.err = ""
    /\ \E i \in 1..Len(RootProps) :
         /\ RootProps[i].name \notin RootRequired
         /\ RootProps[i].name \notin DOMAIN instance.kwargs
         /\ "default" \in DOMAIN RootProps[i].node
         /\ RootProps[i].node["default"] = JsonString("output")
         /\ InstanceValue(RootProps[i].name) = JsonString("output")

\* C2: every property named in `required` is a field of the output type, and
\* its field type is exactly the type the Type Converter returns for the
\* property node, with no nullable wrapper.
C2_RequiredFieldUnwrapped ==
    Built =>
      \A i \in 1..Len(RootProps) :
        LET name == RootProps[i].name
        IN name \in RootRequired =>
             /\ name \in Names(result.val.fields)
             /\ FieldOf(name).type = TypeConverter(RootProps[i].node).val

\* C2 witness: a required string property became a field of type str, which
\* is not nullable.
C2_Witness ==
    /\ Built
    /\ \E i \in 1..Len(RootProps) :
         /\ RootProps[i].name \in RootRequired
         /\ RootProps[i].node = TypeNode("string")
         /\ FieldOf(RootProps[i].name).type = StrType
         /\ ~Nullable(FieldOf(RootProps[i].name).type)

\* The type converted for a property, under the nullable wrapper if it has one.
NestedType(name) == Members(FieldOf(name).type)[1]

\* A property node that is just a reference to a definition of the table.
IsResolvedRef(prop) == DOMAIN prop = {"$ref"} /\ ref_name(prop) \in DOMAIN TableInForce

\* C3 as stated: a property {"$ref": "#/$defs/Foo"} converts to the model that
\* jsonschema_to_pydantic returns for Foo's definition passed alone as a
\* top-level schema.
C3_RefSameAsTopLevel ==
    Built =>
      \A i \in 1..Len(RootProps) :
        LET prop == RootProps[i].node
        IN IsResolvedRef(prop) =>
             LET direct == jsonschema_to_pydantic(
                               TableInForce[ref_name(prop)], NoDefinitions, version, 0)
             IN direct.err = "" /\ NestedType(RootProps[i].name) = direct.val

\* C3 amended: a property {"$ref": "#/$defs/Foo"} converts to the model that
\* jsonschema_to_pydantic returns for Foo's definition as a top-level schema
\* with the call's Definitions Table (the root's) passed as `definitions`;
\* converting Foo's
\* definition with no `definitions` argument gives the same model when the
\* definition reaches no `$ref`.
C3_RefSameAsTopLevelWithRootTable ==
    Built =>
      \A i \in 1..Len(RootProps) :
        LET prop == RootProps[i].node
        IN IsResolvedRef(prop) =>
             LET def == TableInForce[ref_name(prop)]
                 withTable == jsonschema_to_pydantic(def, Given(TableInForce), version, 0)
                 alone == jsonschema_to_pydantic(def, NoDefinitions, version, 0)
             IN /\ withTable.err = ""
                /\ NestedType(RootProps[i].name) = withTable.val
                /\ ~SchemaReachesRef(def) =>
                     alone.err = "" /\ NestedType(RootProps[i].name) = alone.val

\* C3 witness: a reference to a definition that itself refers to another
\* definition of the table was converted to the nested model; alone, the
\* definition cannot be converted.
C3_Witness ==
    /\ Built
    /\ \E i \in 1..Len(RootProps) :
         LET prop == RootProps[i].node
         IN /\ IsResolvedRef(prop)
            /\ SchemaReachesRef(TableInForce[ref_name(prop)])
            /\ NestedType(RootProps[i].name).kind = "Model"
            /\ NestedType(RootProps[i].name) =
                 jsonschema_to_pydantic(TableInForce[ref_name(prop)], Given(TableInForce),
                                        version, 0).val
            /\ jsonschema_to_pydantic(TableInForce[ref_name(prop)], NoDefinitions,
                                      version, 0).err = "KeyError"

\* The field map of the model built from the k-th sub-schema of an allOf node.
SubFields(prop, k) ==
    annotations(jsonschema_to_pydantic(prop["allOf"][k], Given(TableInForce), version, 0).val)

AlternativeTypes(prop) ==
    [k \in 1..Len(prop["anyOf"]) |-> TypeConverter(prop["anyOf"][k]).val]

\* C5: the type of an anyOf node is the union of its converted alternatives in
\* their order: its members are the alternatives' members, any two of them
\* in an order they have among the alternatives, and an argument given for
\* the field is accepted
\* exactly when some alternative accepts it (or, for a field that is not
\* required, when it is null).
C5_AnyOfIsUnionOfAlternatives ==
    Built =>
      \A i \in 1..Len(RootProps) :
        LET name == RootProps[i].name
            prop == RootProps[i].node
        IN dispatch(prop) = "anyOf" =>
             LET alts == AlternativeTypes(prop)
                 all == Flatten(alts)
                 members == Members(FieldOf(name).type)
             IN /\ name \in RootRequired =>
                     /\ Range(members) = Range(all)
                     /\ Len(members) <= Len(all)
                     /\ members[1] = all[1]
                     /\ \A a, b \in 1..Len(members) :
                          a < b => \E p, q \in 1..Len(all) :
                                     p < q /\ all[p] = members[a] /\ all[q] = members[b]
                /\ (/\ pc = "constructed"
                    /\ name \in DOMAIN instance.kwargs
                    /\ \A j \in 1..Len(result.val.fields) :
                         result.val.fields[j].name # name
                           => field_ok(result.val.fields[j], instance.kwargs))
                   => (instance.err = ""
                         <=> \/ \E k \in 1..Len(alts) : Accepts(alts[k], instance.kwargs[name])
                             \/ name \notin RootRequired /\ instance.kwargs[name] = JsonNull)

\* C5 witness: an instance was built from an argument that the second
\* alternative of a required anyOf field accepts and the first does not.
C5_Witness ==
    /\ pc = "constructed" /\ instance.err = ""
    /\ \E i \in 1..Len(RootProps) :
         LET name == RootProps[i].name
             prop == RootProps[i].node
         IN /\ dispatch(prop) = "anyOf"
            /\ name \in RootRequired
            /\ name \in DOMAIN instance.kwargs
            /\ Len(prop["anyOf"]) = 2
            /\ ~Accepts(AlternativeTypes(prop)[1], instance.kwargs[name])
            /\ Accepts(AlternativeTypes(prop)[2], instance.kwargs[name])
            /\ Len(Members(FieldOf(name).type)) = 2

\* The `type` values the Type Converter names.
RecognizedTypes == {"string", "number", "integer", "boolean", "null", "array", "object"}

\* A node that is no reference, no allOf, no anyOf, not untyped, and whose
\* `type` is none of the recognized ones.
MatchesNoCase(prop) ==
    /\ DOMAIN prop \cap {"$ref", "allOf", "anyOf"} = {}
    /\ "type" \in DOMAIN prop
    /\ prop["type"] \notin RecognizedTypes

\* C6: a node that matches none of the recognized dispatch cases makes
\* convert_type fail with a ValueError instead of returning a type.
C6_UnrecognizedNodeRaisesValueError ==
    Converted =>
      \A i \in 1..Len(RootProps) :
        MatchesNoCase(RootProps[i].node) =>
          /\ TypeConverter(RootProps[i].node).err = "ValueError"
          /\ (Len(RootProps) = 1 /\ SupportedVersion(version)) => result.err = "ValueError"

\* The `$ref` lookups of the call that name a definition absent from the table.
Misses ==
    {i \in 1..Len(result.log) :
        /\ result.log[i].ev = "lookup"
        /\ result.log[i].name \notin DOMAIN result.log[i].table}

\* The models being built (entered, not yet handed to create_model) at event i.
Enclosing(i) ==
    Cardinality({j \in 1..i : result.log[j].ev = "call"})
    - Cardinality({j \in 1..i : result.log[j].ev = "create_model"
                                /\ result.log[j].name # "CombinedModel"})

\* C7: when a `$ref` reached during the call names a definition absent from
\* the Definitions Table, the call fails with a KeyError (a LookupError): it
\* returns no model, and after the failed lookup the model builder is not
\* invoked again, so none of the enclosing models is built.
C7_UnresolvedRefAbortsWholeCall ==
    Converted =>
      \A i \in Misses :
        /\ result.err = "KeyError"
        /\ result.val = NoType
        /\ pc # "constructed"
        /\ Enclosing(i) >= 1
        /\ i + 1 = Len(result.log)
        /\ result.log[i + 1] = Event("raise", "KeyError", result.log[i].table)
        /\ \A j \in (i + 1)..Len(result.log) :
             result.log[j].ev \notin {"create_model", "call", "lookup"}

\* C7 witness: a lookup failed two models deep, after a sibling model had been
\* built, and the call ended in the KeyError.
C7_Witness ==
    /\ Converted
    /\ result.err = "KeyError"
    /\ \E i \in Misses :
         /\ Enclosing(i) >= 2
         /\ \E j \in 1..i : result.log[j].ev = "create_model"

RECURSIVE Canon(_)
\* A schema up to ordering: `properties` as a mapping from names, `required`
\* as a set.
Canon(node) ==
    [k \in DOMAIN node |->
       CASE k = "properties" ->
              [n \in Names(node[k]) |-> Canon(Lookup(node[k], n).node)]
         [] k = "required" -> Range(node[k])
         [] k \in {"$defs", "definitions"} ->
              [n \in DOMAIN node[k] |-> Canon(node[k][n])]
         [] k = "items" -> Canon(node[k])
         [] k = "anyOf" -> [i \in 1..Len(node[k]) |-> Canon(node[k][i])]
         [] OTHER -> node[k]]

Primitives == {"string", "number", "integer", "boolean"}

RECURSIVE OnlyPlainNode(_, _)
RECURSIVE OnlyPlainObject(_, _)
\* A node that is a primitive, an array of such nodes, or a nested object,
\* inline or by reference, with no allOf and no anyOf anywhere.
OnlyPlainNode(node, table) ==
    /\ "allOf" \notin DOMAIN node
    /\ "anyOf" \notin DOMAIN node
    /\ IF "$ref" \in DOMAIN node
       THEN /\ ref_name(node) \in DOMAIN table
            /\ OnlyPlainObject(table[ref_name(node)], table)
       ELSE /\ "type" \in DOMAIN node
            /\ CASE node["type"] \in Primitives -> TRUE
                 [] node["type"] = "array" ->
                      "items" \in DOMAIN node /\ OnlyPlainNode(node["items"], table)
                 [] node["type"] = "object" -> OnlyPlainObject(node, table)
                 [] OTHER -> FALSE
OnlyPlainObject(obj, table) ==
    /\ "allOf" \notin DOMAIN obj
    /\ "anyOf" \notin DOMAIN obj
    /\ "properties" \in DOMAIN obj
    /\ \A i \in 1..Len(obj["properties"]) :
         OnlyPlainNode(obj["properties"][i].node, table)

RECURSIVE RefsOfNode(_)
RECURSIVE RefsOfProps(_)
\* The names a node, or a property list, references, one entry per reference.
RefsOfNode(node) ==
    IF "$ref" \in DOMAIN node THEN <<ref_name(node)>>
    ELSE IF "items" \in DOMAIN node THEN RefsOfNode(node["items"])
    ELSE <<>>
RefsOfProps(props) ==
    IF props = <<>> THEN <<>>
    ELSE RefsOfNode(Head(props).node) \o RefsOfProps(Tail(props))

\* The number of references to a definition in the root and in the table.
RefCount(sch, table, name) ==
    LET at(owner) == RefsOfProps(IF owner = "" THEN sch["properties"]
                                 ELSE table[owner]["properties"])
        places == UNION {{<<owner, i>> : i \in 1..Len(at(owner))} :
                            owner \in DOMAIN table \cup {""}}
    IN Cardinality({pl \in places : at(pl[1])[pl[2]] = name})

RECURSIVE ReachedFrom(_, _, _)
\* The definitions reached from a set of them in at most `steps` references.
ReachedFrom(names, table, steps) ==
    IF steps = 0 THEN names
    ELSE ReachedFrom(names \cup UNION {Range(RefsOfProps(table[n]["properties"])) :
                                          n \in names \cap DOMAIN table},
                     table, steps - 1)

RECURSIVE WrittenItem(_, _, _)
\* An array's `items` as the builder writes it: a bare primitive, a bare
\* reference into the version's definitions block, or an array of these.
WrittenItem(node, table, v) ==
    IF "$ref" \in DOMAIN node
    THEN /\ DOMAIN node = {"$ref"}
         /\ \E n \in DOMAIN table : node = RefTo(DefsKey(v), n)
    ELSE /\ "type" \in DOMAIN node
         /\ \/ DOMAIN node = {"type"} /\ node["type"] \in Primitives
            \/ /\ DOMAIN node = {"type", "items"}
               /\ node["type"] = "array"
               /\ WrittenItem(node["items"], table, v)

\* A property as the builder writes it: a bare reference, or a primitive or
\* array titled after the property's name, with a description perhaps; with
\* pydantic 1 a default that is not null perhaps, with pydantic 2 no default.
WrittenProperty(name, node, table, v) ==
    IF "$ref" \in DOMAIN node THEN WrittenItem(node, table, v)
    ELSE /\ {"type", "title"} \subseteq DOMAIN node
         /\ name \in DOMAIN Titles
         /\ node["title"] = title_of(name)
         /\ WrittenItem([k \in DOMAIN node \cap {"type", "items"} |-> node[k]], table, v)
         /\ DOMAIN node \subseteq {"type", "items", "title", "description", "default"}
         /\ "default" \in DOMAIN node => v = 1 /\ node["default"] # JsonNull

\* An object as the builder writes it: titled, of type object, every property
\* written as above; with pydantic 2 every property is required, with
\* pydantic 1 none that has a default is; no empty `required`.
WrittenObject(obj, table, v) ==
    /\ {"title", "type", "properties"} \subseteq DOMAIN obj
    /\ DOMAIN obj \subseteq {"title", "type", "properties", "required", "description", DefsKey(v)}
    /\ obj["type"] = "object"
    /\ "description" \in DOMAIN obj => obj["description"] # ""
    /\ LET props == obj["properties"]
           required == Get(obj, "required", <<>>)
       IN /\ props # <<>>
          /\ \A i, j \in 1..Len(props) : i # j => props[i].name # props[j].name
          /\ \A i \in 1..Len(props) :
               /\ WrittenProperty(props[i].name, props[i].node, table, v)
               /\ v = 2 => props[i].name \in Range(required)
               /\ "default" \in DOMAIN props[i].node => props[i].name \notin Range(required)
          /\ "required" \in DOMAIN obj => required # <<>>
          /\ Range(required) \subseteq Names(props)

\* A schema as model.schema() of the given pydantic version writes it: the
\* root and every definition written as above, the nested objects held in
\* the version's definitions block under their titles, each referenced
\* exactly once and reached from the root.
InDialect(sch, v) ==
    LET table == Get(sch, DefsKey(v), EmptyDict)
    IN /\ WrittenObject(sch, table, v)
       /\ DefsKey(v) \in DOMAIN sch => table # EmptyDict
       /\ \A n \in DOMAIN table :
            /\ DefsKey(v) \notin DOMAIN table[n]
            /\ WrittenObject(table[n], table, v)
            /\ table[n]["title"] = n
       /\ \A n \in DOMAIN table : RefCount(sch, table, n) = 1
       /\ ReachedFrom(Range(RefsOfProps(sch["properties"])), table,
                      Cardinality(DOMAIN table)) = DOMAIN table

\* C8 as stated: for a schema of primitives, arrays and nested objects only,
\* without allOf and anyOf, the schema regenerated from the built model
\* equals the input schema up to ordering.
C8_RoundTripOfPlainSchemas ==
    (pc = "regenerated" /\ OnlyPlainObject(schema, TableInForce)) =>
      Canon(regenerated) = Canon(schema)

\* C8: for a schema of primitives, arrays and nested objects only that is
\* written the way model.schema() of the chosen pydantic version writes it,
\* converted without a `definitions` argument, the conversion succeeds and
\* the schema regenerated from the built model equals the input schema up to
\* ordering.
C8_RoundTripOfWrittenSchemas ==
    (/\ Converted
     /\ definitions_arg = NoDefinitions
     /\ SupportedVersion(version)
     /\ InDialect(schema, version)) =>
      /\ result.err = ""
      /\ Regenerable(result.val)
      /\ pc = "regenerated" => Canon(regenerated) = Canon(schema)

\* C8 witness: a pydantic 2 schema with a described primitive and an array of
\* references into its `$defs` was converted and regenerated, key for key.
C8_Witness ==
    /\ pc = "regenerated"
    /\ definitions_arg = NoDefinitions
    /\ version = 2
    /\ InDialect(schema, version)
    /\ "$defs" \in DOMAIN schema
    /\ \E i \in 1..Len(RootProps) :
         /\ "items" \in DOMAIN RootProps[i].node
         /\ "$ref" \in DOMAIN RootProps[i].node["items"]
    /\ \E i \in 1..Len(RootProps) : "description" \in DOMAIN RootProps[i].node
    /\ Canon(regenerated) = Canon(schema)

\* The dispatch keys of a node below the first one it carries, in the order
\* `$ref`, `type`, `allOf`, `anyOf`.
DispatchOrder == <<"$ref", "type", "allOf", "anyOf">>
LowerKeys(prop) ==
    LET first == CHOOSE k \in 1..4 :
                     /\ DispatchOrder[k] \in DOMAIN prop
                     /\ \A j \in 1..(k - 1) : DispatchOrder[j] \notin DOMAIN prop
    IN {DispatchOrder[j] : j \in (first + 1)..4}

SeveralDispatchKeys(prop) ==
    Cardinality(DOMAIN prop \cap Range(DispatchOrder)) >= 2

\* The node without the dispatch keys below its first one.
Strip(prop) == [k \in DOMAIN prop \ LowerKeys(prop) |-> prop[k]]

\* C9: for a node carrying several of the keys `$ref`, `type`, `allOf`,
\* `anyOf`, convert_type gives what it gives for the node with only the first
\* of them in that order: the keys after it change nothing.
C9_FirstMatchWins ==
    Converted =>
      \A i \in 1..Len(RootProps) :
        LET name == RootProps[i].name
            prop == RootProps[i].node
        IN SeveralDispatchKeys(prop) =>
             LET full == TypeConverter(prop)
                 alone == TypeConverter(Strip(prop))
             IN /\ full.err = alone.err
                /\ full.val = alone.val
                /\ Built => FieldOf(name).type =
                              IF name \in RootRequired THEN alone.val
                              ELSE Optional(alone.val)
                /\ (~Built /\ Len(RootProps) = 1 /\ SupportedVersion(version))
                     => result.err = alone.err

\* C9 witness: a required node with `type`, `allOf` and `anyOf` became a field
\* of the type its `type` alone gives.
C9_Witness ==
    /\ Built
    /\ \E i \in 1..Len(RootProps) :
         LET prop == RootProps[i].node
         IN /\ {"type", "allOf", "anyOf"} \subseteq DOMAIN prop
            /\ prop["type"] = "string"
            /\ RootProps[i].name \in RootRequired
            /\ FieldOf(RootProps[i].name).type = StrType

\* C10: in a call made without a `definitions` argument, every nested call of
\* jsonschema_to_pydantic and every `$ref` lookup uses the table of the root
\* schema: `$defs` if the root has it, else `definitions`, else the empty one.
C10_RootTableEverywhere ==
    (Converted /\ definitions_arg = NoDefinitions) =>
      \A i \in 1..Len(result.log) :
        result.log[i].ev \in {"call", "lookup"} => result.log[i].table = RootTable

\* C10 witness: a definition carrying a `$defs` block of its own was converted
\* through a reference, and the reference inside it was looked up in the
\* root's table.
C10_Witness ==
    /\ Built
    /\ definitions_arg = NoDefinitions
    /\ "Foo" \in DOMAIN RootTable
    /\ "$defs" \in DOMAIN RootTable["Foo"]
    /\ RootTable["Foo"]["$defs"] # RootTable
    /\ \E i, j \in 1..Len(result.log) :
         /\ i < j
         /\ result.log[i] = Event("call", "Foo", RootTable)
         /\ result.log[j] = Event("lookup", "Bar", RootTable)

RECURSIVE RefTargets(_)
\* The definition names a schema refers to, anywhere inside it.
RefTargets(node) ==
    LET in(list) == UNION {RefTargets(list[i]) : i \in 1..Len(list)}
    IN (IF "$ref" \in DOMAIN node THEN {Last(node["$ref"])} ELSE {})
       \cup (IF "items" \in DOMAIN node THEN RefTargets(node["items"]) ELSE {})
       \cup (IF "properties" \in DOMAIN node
             THEN UNION {RefTargets(node["properties"][i].node) :
                            i \in 1..Len(node["properties"])}
             ELSE {})
       \cup (IF "allOf" \in DOMAIN node THEN in(node["allOf"]) ELSE {})
       \cup (IF "anyOf" \in DOMAIN node THEN in(node["anyOf"]) ELSE {})

RECURSIVE RefersOnward(_, _, _)
\* The definitions referred to from a set of them through at most `steps`
\* further references.
RefersOnward(names, table, steps) ==
    IF steps = 0 THEN names
    ELSE RefersOnward(names \cup UNION {RefTargets(table[n]) : n \in names \cap DOMAIN table},
                      table, steps - 1)

\* The `$ref` graph over the table in force has no cycle: no definition
\* refers, directly or through others, to itself.
AcyclicRefs ==
    \A n \in DOMAIN TableInForce :
      n \notin RefersOnward(RefTargets(TableInForce[n]), TableInForce,
                            Cardinality(DOMAIN TableInForce))

Finished == pc = "returned" \/ pc = "raised"

\* C11: a top-level call on a schema whose `$ref` graph over the table in
\* force is acyclic eventually finishes, by returning or by raising, and it
\* is not the recursion limit that ends it.
C11_AcyclicCallFinishes ==
    (pc = "start" /\ AcyclicRefs) ~> (Finished /\ result.err # "RecursionError")

\* C11 witness: a call on a schema whose property refers to a definition that
\* refers to a further one has returned, after the calls for both.
C11_Witness ==
    /\ pc = "returned"
    /\ AcyclicRefs
    /\ \E n \in RefTargets(schema) \cap DOMAIN TableInForce :
         RefTargets(TableInForce[n]) \cap DOMAIN TableInForce # {}
    /\ calls >= 6

====
